---- MODULE Spec2Model ----
(***************************************************************************)
(* Model of the progress store of src/ппу.py (class LearningTracker) and   *)
(* of the reset handler of LearningTrackerGUI.                             *)
(*                                                                         *)
(* A JSON object is a function whose domain is the set of its keys, so     *)
(* that "key in dict" is "key \in DOMAIN dict" and a missing key is a      *)
(* KeyError.  Stage, task and resource ids are numbers: k stands for       *)
(* "stage<k>", "task<k>", "resource<k>"; LegacyId stands for an id that an *)
(* older version of the curriculum wrote and the current default lacks.    *)
(* Percentages are exact rationals <<numerator, denominator>> in lowest    *)
(* terms (the code computes them in floating point).                       *)
(*                                                                         *)
(* data is self.data, file the content of learning_progress.json, now the  *)
(* reading of datetime.now(), and lastOp the last call made on the tracker *)
(* with its outcome: ok is FALSE when the call raised (import: returned    *)
(* False), ref is FALSE when a toggle named an id the record lacks.        *)
(* The records hold only strings, booleans, numbers and objects with       *)
(* string keys, which json.dump and json.load carry unchanged; a file is   *)
(* therefore its parsed value, tagged, or one of the two unparsable kinds. *)
(***************************************************************************)
EXTENDS Integers, FiniteSets, Sequences, TLC

VARIABLES data, file, now, lastOp

vars == <<data, file, now, lastOp>>

\* ------------------------------------------------------------------ bounds
\* number of stages of the (scaled-down) default curriculum
NumStages == 2
\* number of tasks of every default stage
NumTasks == 1
\* number of resources of every default stage
NumResources == 1
\* the clock runs from 0 to MaxTime
MaxTime == 1

\* update_stage_progress on its own: a stage has up to MaxTasks tasks
MaxTasks == 3
\* and up to MaxResources resources
MaxResources == 2

\* an id that is not in the default curriculum
LegacyId == 0

DefaultStageIds == 1..NumStages
DefaultTaskIds == 1..NumTasks
DefaultResourceIds == 1..NumResources

\* ------------------------------------------------------------- rationals
RECURSIVE GCD(_, _)
GCD(a, b) == IF b = 0 THEN a ELSE GCD(b, a % b)

\* n / d in lowest terms, d > 0
Rat(n, d) == LET g == GCD(n, d) IN <<n \div g, d \div g>>

RatAdd(p, q) == Rat(p[1] * q[2] + q[1] * p[2], p[2] * q[2])

RatDiv(p, k) == Rat(p[1], p[2] * k)

Zero == <<0, 1>>

RECURSIVE SumProgress(_, _)
\* sum(stage['progress'] for stage in stages.values())
SumProgress(stages, ids) ==
    IF ids = {} THEN Zero
    ELSE LET s == CHOOSE x \in ids : TRUE
         IN RatAdd(stages[s].progress, SumProgress(stages, ids \ {s}))

\* ---------------------------------------------------------- default data
DefaultTask == [name |-> "default", completed |-> FALSE]

DefaultResource == [name |-> "default", url |-> "default", completed |-> FALSE]

DefaultStage ==
    [name |-> "default", completed |-> FALSE, progress |-> Zero,
     resources |-> [r \in DefaultResourceIds |-> DefaultResource],
     tasks |-> [t \in DefaultTaskIds |-> DefaultTask]]

\* get_default_data(): a fresh record, stamped with the current time
get_default_data(t) ==
    [stages |-> [s \in DefaultStageIds |-> DefaultStage],
     metadata |-> [start_date |-> t, last_update |-> t, total_progress |-> Zero]]

\* ------------------------------------------------------------- migration
Raised == [ok |-> FALSE]

Returned(d) == [ok |-> TRUE, data |-> d]

\* fix_stage, but a default task that is already present is overwritten
fix_stage_overwriting(stage) ==
    LET withRes == IF "resources" \in DOMAIN stage THEN stage
                   ELSE [k \in DOMAIN stage \cup {"resources"} |->
                            IF k = "resources" THEN DefaultStage.resources
                            ELSE stage[k]]
        current_tasks == stage.tasks
    IN [withRes EXCEPT !.tasks =
            [t \in DOMAIN current_tasks \cup DefaultTaskIds |->
                IF t \in DefaultTaskIds THEN DefaultStage.tasks[t]
                ELSE current_tasks[t]]]

\* the body of the loop of fix_missing_data for a stage that is present
fix_stage(stage) ==
    LET withRes == IF "resources" \in DOMAIN stage THEN stage
                   ELSE [k \in DOMAIN stage \cup {"resources"} |->
                            IF k = "resources" THEN DefaultStage.resources
                            ELSE stage[k]]
        current_tasks == stage.tasks
    IN [withRes EXCEPT !.tasks =
            [t \in DOMAIN current_tasks \cup DefaultTaskIds |->
                IF t \in DOMAIN current_tasks THEN current_tasks[t]
                ELSE DefaultStage.tasks[t]]]

\* fix_missing_data, but the loop stops after the first stage it inserted
fix_missing_data_first_only(d) ==
    IF "stages" \notin DOMAIN d THEN Raised
    ELSE IF \E s \in DefaultStageIds \cap DOMAIN d.stages :
                "tasks" \notin DOMAIN d.stages[s] THEN Raised
    ELSE LET missing == DefaultStageIds \ DOMAIN d.stages
             added == {s \in missing : \A x \in missing : s <= x}
         IN Returned([d EXCEPT !.stages =
                [s \in DOMAIN d.stages \cup added |->
                    IF s \in added THEN DefaultStage
                    ELSE IF s \in DefaultStageIds THEN fix_stage(d.stages[s])
                    ELSE d.stages[s]]])

\* fix_missing_data(data): raises (KeyError) when data has no 'stages' or
\* when a default stage is present without 'tasks'
fix_missing_data(d) ==
    IF "stages" \notin DOMAIN d THEN Raised
    ELSE IF \E s \in DefaultStageIds \cap DOMAIN d.stages :
                "tasks" \notin DOMAIN d.stages[s] THEN Raised
    ELSE Returned([d EXCEPT !.stages =
            [s \in DOMAIN d.stages \cup DefaultStageIds |->
                IF s \notin DefaultStageIds THEN d.stages[s]
                ELSE IF s \in DOMAIN d.stages THEN fix_stage(d.stages[s])
                ELSE DefaultStage]])

\* ------------------------------------------------------------ aggregation
CompletedCount(entries) == Cardinality({i \in DOMAIN entries : entries[i].completed})

\* stage.get('resources', {})
ResourcesOf(stage) == IF "resources" \in DOMAIN stage THEN stage.resources ELSE <<>>

\* StagePercent, but the resources are left out of both counts
StagePercent_tasks_only(stage) ==
    LET done == CompletedCount(stage.tasks)
        total_items == Cardinality(DOMAIN stage.tasks)
    IN IF total_items > 0 THEN Rat(done * 100, total_items) ELSE Zero

\* the percentage update_stage_progress computes for a stage that has 'tasks'
StagePercent(stage) ==
    LET resources == ResourcesOf(stage)
        done == CompletedCount(stage.tasks) + CompletedCount(resources)
        total_items == Cardinality(DOMAIN stage.tasks) + Cardinality(DOMAIN resources)
    IN IF total_items > 0 THEN Rat(done * 100, total_items) ELSE Zero

\* progress >= 100
AtLeast100(p) == p[1] >= 100 * p[2]

\* update_stage_progress(stage_id), for a stage id of the record: raises
\* (KeyError) when the stage has no 'tasks'
update_stage_progress(d, s) ==
    IF "tasks" \notin DOMAIN d.stages[s] THEN Raised
    ELSE LET progress == StagePercent(d.stages[s])
         IN Returned([d EXCEPT !.stages[s].progress = progress,
                               !.stages[s].completed = AtLeast100(progress)])

\* update_total_progress(): raises when there is no stage (ZeroDivisionError)
\* or no 'metadata' (KeyError)
update_total_progress(d) ==
    LET n == Cardinality(DOMAIN d.stages)
    IN IF n = 0 \/ "metadata" \notin DOMAIN d THEN Raised
       ELSE Returned([d EXCEPT !.metadata.total_progress =
                        RatDiv(SumProgress(d.stages, DOMAIN d.stages), n)])

\* ------------------------------------------------------------------ files
Absent == [kind |-> "absent"]

NotJson == [kind |-> "garbage"]

\* json.dump(value, f)
json_dump(value) == [kind |-> "json", value |-> value]

\* json.load(f): raises on a file that does not exist or is not JSON
json_load(content) ==
    IF content.kind = "json" THEN Returned(content.value) ELSE Raised

\* ------------------------------------------------------------- operations
\* The outcome of a method of the tracker: whether it returned or raised,
\* and self.data and the backing file as it leaves them.
Completed(d, f) == [ok |-> TRUE, data |-> d, file |-> f]

Failed(d, f) == [ok |-> FALSE, data |-> d, file |-> f]

\* load_data(): the record __init__ stores in self.data
load_data(content, t) ==
    LET parsed == json_load(content)
        fixed == fix_missing_data(parsed.data)
    IN IF parsed.ok /\ fixed.ok THEN fixed.data ELSE get_default_data(t)

\* save_data(): stamps last_update (KeyError without 'metadata'), then
\* overwrites the file with json.dump(self.data)
save_data(d, f, t) ==
    IF "metadata" \notin DOMAIN d THEN Failed(d, f)
    ELSE LET stamped == [d EXCEPT !.metadata.last_update = t]
         IN Completed(stamped, json_dump(stamped))

\* recompute_and_save, but the file is written before the total is recomputed
save_before_total(d, f, s, t) ==
    LET staged == update_stage_progress(d, s)
        saved == save_data(staged.data, f, t)
        totalled == update_total_progress(saved.data)
    IN IF ~staged.ok THEN Failed(d, f)
       ELSE IF ~saved.ok THEN saved
       ELSE Completed(totalled.data, saved.file)

\* the three calls that end update_task and update_resource
recompute_and_save(d, f, s, t) ==
    LET staged == update_stage_progress(d, s)
        totalled == update_total_progress(staged.data)
    IN IF ~staged.ok THEN Failed(d, f)
       ELSE IF ~totalled.ok THEN Failed(staged.data, f)
       ELSE save_data(totalled.data, f, t)

HasTask(d, s, i) ==
    /\ s \in DOMAIN d.stages
    /\ "tasks" \in DOMAIN d.stages[s]
    /\ i \in DOMAIN d.stages[s].tasks

HasResource(d, s, i) ==
    /\ s \in DOMAIN d.stages
    /\ "resources" \in DOMAIN d.stages[s]
    /\ i \in DOMAIN d.stages[s].resources

\* update_task, but an unknown task id of a known stage creates the entry
update_task_creating(d, f, s, i, c, t) ==
    IF ~(s \in DOMAIN d.stages /\ "tasks" \in DOMAIN d.stages[s]) THEN Failed(d, f)
    ELSE recompute_and_save(
            [d EXCEPT !.stages[s].tasks =
                [x \in DOMAIN d.stages[s].tasks \cup {i} |->
                    IF x = i THEN [name |-> "default", completed |-> c]
                    ELSE d.stages[s].tasks[x]]], f, s, t)

\* update_task(stage_id, task_id, completed); the first line raises KeyError
\* on an id the record lacks
update_task(d, f, s, i, c, t) ==
    IF ~HasTask(d, s, i) THEN Failed(d, f)
    ELSE recompute_and_save([d EXCEPT !.stages[s].tasks[i].completed = c], f, s, t)

\* update_resource(stage_id, resource_id, completed)
update_resource(d, f, s, i, c, t) ==
    IF ~HasResource(d, s, i) THEN Failed(d, f)
    ELSE recompute_and_save([d EXCEPT !.stages[s].resources[i].completed = c], f, s, t)

\* import_progress(filename): self.data is assigned only when json.load and
\* fix_missing_data both returned; the backing file is not written
import_progress(d, f, content) ==
    LET parsed == json_load(content)
        fixed == fix_missing_data(parsed.data)
    IN IF parsed.ok /\ fixed.ok THEN Completed(fixed.data, f) ELSE Failed(d, f)

\* reset_progress, but the fresh record is not saved
reset_without_save(d, f, t) == Completed(get_default_data(t), f)

\* reset_progress() after the user confirmed
reset_progress(d, f, t) == save_data(get_default_data(t), f, t)

\* ------------------------------------------------------------ file inputs
\* Contents a progress file can have: written by this version, written by an
\* older version of the curriculum (fewer or other ids, no 'resources'), or
\* damaged.  A stored stage carries the progress its writer computed.
EntryName(i) == IF i = LegacyId THEN "custom" ELSE "default"

StoredTasks(ids, b) == [i \in ids |-> [name |-> EntryName(i), completed |-> b]]

StoredResources(ids, b) ==
    [i \in ids |-> [name |-> EntryName(i), url |-> EntryName(i), completed |-> b]]

\* the ids an older curriculum had: the newest default id is missing and
\* an id the default no longer has is present
OlderIds(ids, newest) == (ids \ {newest}) \cup {LegacyId}

Aggregated(stage) ==
    [stage EXCEPT !.progress = StagePercent(stage),
                  !.completed = AtLeast100(StagePercent(stage))]

StoredStage(resources, tasks) ==
    Aggregated([name |-> "default", completed |-> FALSE, progress |-> Zero,
                resources |-> resources, tasks |-> tasks])

\* a stage as the version without resources wrote it
StageWithoutResources(tasks) ==
    Aggregated([name |-> "default", completed |-> FALSE, progress |-> Zero,
                tasks |-> tasks])

StageWithoutTasks ==
    [name |-> "default", completed |-> FALSE, progress |-> Zero,
     resources |-> DefaultStage.resources]

LegacyStage ==
    [name |-> "custom", completed |-> TRUE, progress |-> <<100, 1>>,
     tasks |-> StoredTasks({LegacyId}, TRUE)]

CompletedStage ==
    StoredStage(StoredResources(DefaultResourceIds, TRUE), StoredTasks(DefaultTaskIds, TRUE))

StageInputs ==
    {DefaultStage, CompletedStage, StageWithoutTasks,
     StageWithoutResources(StoredTasks(DefaultTaskIds, TRUE)),
     StoredStage(StoredResources(DefaultResourceIds, TRUE),
                 StoredTasks(OlderIds(DefaultTaskIds, NumTasks), TRUE)),
     StoredStage(StoredResources(OlderIds(DefaultResourceIds, NumResources), TRUE),
                 StoredTasks(DefaultTaskIds, TRUE)),
     StoredStage(StoredResources(DefaultResourceIds \cup {LegacyId}, TRUE),
                 StoredTasks(DefaultTaskIds \cup {LegacyId}, FALSE))}

\* the record an (older) version saved for these stages
StoredRecord(stages) ==
    [stages |-> stages,
     metadata |-> [start_date |-> 0, last_update |-> 0,
                   total_progress |->
                      IF DOMAIN stages = {} THEN Zero
                      ELSE RatDiv(SumProgress(stages, DOMAIN stages),
                                  Cardinality(DOMAIN stages))]]

\* the first stage varies; the later stages are all absent or all completed
StageMaps ==
    {[s \in ids |-> IF s = 1 THEN first ELSE CompletedStage] :
        ids \in {DefaultStageIds, {1}}, first \in StageInputs}
    \cup {<<>>,
          [s \in DefaultStageIds \ {1} |-> DefaultStage],
          [s \in {LegacyId, 1} |-> IF s = 1 THEN DefaultStage ELSE LegacyStage]}

WithoutMetadata == [stages |-> [s \in DefaultStageIds |-> DefaultStage]]

EmptyObject == <<>>

JsonInputs == {StoredRecord(m) : m \in StageMaps} \cup {WithoutMetadata, EmptyObject}

FileInputs == {Absent, NotJson} \cup {json_dump(v) : v \in JsonInputs}

\* ---------------------------------------------------------------- actions
Op(name, ok, ref) == [op |-> name, ok |-> ok, ref |-> ref]

StageIdInputs == DefaultStageIds \cup {LegacyId}

\* LearningTracker(): self.data = self.load_data()
Init ==
    /\ file \in FileInputs
    /\ now = 0
    /\ data = load_data(file, now)
    /\ lastOp = Op("load", TRUE, TRUE)

\* the application is started again on the file it left
Restart ==
    /\ data' = load_data(file, now)
    /\ lastOp' = Op("load", TRUE, TRUE)
    /\ UNCHANGED <<file, now>>

UpdateTask(s, i, c) ==
    LET out == update_task(data, file, s, i, c, now)
    IN /\ data' = out.data
       /\ file' = out.file
       /\ lastOp' = Op("update_task", out.ok, HasTask(data, s, i))
       /\ UNCHANGED now

UpdateResource(s, i, c) ==
    LET out == update_resource(data, file, s, i, c, now)
    IN /\ data' = out.data
       /\ file' = out.file
       /\ lastOp' = Op("update_resource", out.ok, HasResource(data, s, i))
       /\ UNCHANGED now

ImportProgress(content) ==
    LET out == import_progress(data, file, content)
    IN /\ data' = out.data
       /\ file' = out.file
       /\ lastOp' = Op("import", out.ok, TRUE)
       /\ UNCHANGED now

\* reset_progress(): nothing happens unless the user confirms the dialog
ResetProgress(confirmed) ==
    LET out == IF confirmed THEN reset_progress(data, file, now)
               ELSE Completed(data, file)
    IN /\ data' = out.data
       /\ file' = out.file
       /\ lastOp' = Op(IF confirmed THEN "reset" ELSE "reset_declined", out.ok, TRUE)
       /\ UNCHANGED now

\* the "save" button
SaveData ==
    LET out == save_data(data, file, now)
    IN /\ data' = out.data
       /\ file' = out.file
       /\ lastOp' = Op("save", out.ok, TRUE)
       /\ UNCHANGED now

\* datetime.now() advances
Tick ==
    /\ now < MaxTime
    /\ now' = now + 1
    /\ UNCHANGED <<data, file, lastOp>>

Next ==
    \/ Restart
    \/ \E s \in StageIdInputs, i \in DefaultTaskIds \cup {LegacyId}, c \in BOOLEAN :
            UpdateTask(s, i, c)
    \/ \E s \in StageIdInputs, i \in DefaultResourceIds \cup {LegacyId}, c \in BOOLEAN :
            UpdateResource(s, i, c)
    \/ \E content \in FileInputs : ImportProgress(content)
    \/ \E confirmed \in BOOLEAN : ResetProgress(confirmed)
    \/ SaveData
    \/ Tick

Spec == Init /\ [][Next]_vars

\* ------------------------------------------------- migration on its own
\* fix_missing_data applied, once and again, to the records of MigrateInputs:
\* file keeps the input as it was read, data is the record being migrated.
IdSetInputs(ids, newest) == {ids, OlderIds(ids, newest), ids \cup {LegacyId}, {}}

TaskInputs == {StoredTasks(ids, b) : ids \in IdSetInputs(DefaultTaskIds, NumTasks), b \in BOOLEAN}

ResourceInputs ==
    {StoredResources(ids, b) :
        ids \in IdSetInputs(DefaultResourceIds, NumResources), b \in BOOLEAN}

WideStageInputs ==
    {StoredStage(r, t) : r \in ResourceInputs, t \in TaskInputs}
    \cup {StageWithoutResources(t) : t \in TaskInputs}
    \cup {[name |-> "default", completed |-> FALSE, progress |-> Zero, resources |-> r] :
            r \in ResourceInputs}

WideStageMaps ==
    {[s \in ids |-> IF s = 1 THEN first ELSE IF s = LegacyId THEN LegacyStage ELSE later] :
        ids \in SUBSET ({LegacyId} \cup DefaultStageIds),
        first \in WideStageInputs,
        later \in {DefaultStage, CompletedStage, StageWithoutTasks}}

MigrateInputs ==
    {StoredRecord(m) : m \in WideStageMaps}
    \cup {[stages |-> m] : m \in WideStageMaps}
    \cup {EmptyObject, get_default_data(0)}

InitMigrate ==
    /\ file \in {json_dump(v) : v \in MigrateInputs}
    /\ data = file.value
    /\ now = 0
    /\ lastOp = Op("input", TRUE, TRUE)

\* data = fix_missing_data(data), a first time and then again
Migrate ==
    /\ fix_missing_data(data).ok
    /\ data' = fix_missing_data(data).data
    /\ lastOp' = Op(IF lastOp.op = "input" THEN "migrate" ELSE "migrate_again", TRUE, TRUE)
    /\ UNCHANGED <<file, now>>

\* fix_missing_data(data) raises: the caller keeps nothing of it
MigrateRaises ==
    /\ ~fix_missing_data(data).ok
    /\ lastOp' = Op("migrate", FALSE, TRUE)
    /\ UNCHANGED <<data, file, now>>

NextMigrate == Migrate \/ MigrateRaises

SpecMigrate == InitMigrate /\ [][NextMigrate]_vars

\* ---------------------------------------------------------------- claims
Toggles == {"update_task", "update_resource"}

Entries(stage, part) == IF part \in DOMAIN stage THEN stage[part] ELSE <<>>

\* 100 * completed items / items of a stage, 0 without items
PercentCompleted(stage) ==
    LET tasks == Entries(stage, "tasks")
        resources == Entries(stage, "resources")
        items == Cardinality(DOMAIN tasks) + Cardinality(DOMAIN resources)
        done == Cardinality({i \in DOMAIN tasks : tasks[i].completed})
                + Cardinality({i \in DOMAIN resources : resources[i].completed})
    IN IF items = 0 THEN Zero ELSE Rat(100 * done, items)

MeanProgress(d) ==
    RatDiv(SumProgress(d.stages, DOMAIN d.stages), Cardinality(DOMAIN d.stages))

PersistedSchema(d) == {"stages", "metadata"} \subseteq DOMAIN d

\* C1: every stage id of the default curriculum is in the in-memory record,
\* and each such stage has every default resource id and every default task id.
C1_SchemaComplete ==
    \A s \in DefaultStageIds :
        /\ s \in DOMAIN data.stages
        /\ DefaultTaskIds \subseteq DOMAIN Entries(data.stages[s], "tasks")
        /\ DefaultResourceIds \subseteq DOMAIN Entries(data.stages[s], "resources")

\* C2: the stored progress of every stage of the in-memory record is the
\* percentage of its tasks and resources that are completed (0 without items).
C2_StageProgress ==
    \A s \in DOMAIN data.stages : data.stages[s].progress = PercentCompleted(data.stages[s])

\* C3: metadata.total_progress of the in-memory record is the unweighted mean
\* of the stored progress of all its stages.
C3_TotalProgress ==
    "metadata" \in DOMAIN data => data.metadata.total_progress = MeanProgress(data)

\* C4: an import that fails leaves the in-memory record (and the file) as it
\* was, and an import that is accepted leaves a record of the persisted
\* schema, with 'stages' and 'metadata'.
C4_ImportAllOrNothing ==
    [][lastOp'.op = "import" =>
          IF lastOp'.ok THEN PersistedSchema(data')
          ELSE data' = data /\ file' = file]_vars

\* the in-memory record has a completed entry under the legacy id
KeepsLegacyEntry(d) ==
    \E s \in DOMAIN d.stages :
        \/ LegacyId \in DOMAIN Entries(d.stages[s], "tasks")
             /\ d.stages[s].tasks[LegacyId].completed
        \/ LegacyId \in DOMAIN Entries(d.stages[s], "resources")
             /\ d.stages[s].resources[LegacyId].completed

\* what migrate may do to the entries (tasks or resources) of a stage
EntriesAddedOnly(before, after, defaults) ==
    /\ \A i \in DOMAIN before : i \in DOMAIN after /\ after[i] = before[i]
    /\ \A i \in DOMAIN after \ DOMAIN before :
            i \in DOMAIN defaults /\ after[i] = defaults[i] /\ ~after[i].completed

StageAddedOnly(before, after) ==
    /\ DOMAIN before \subseteq DOMAIN after
    /\ \A k \in DOMAIN before \ {"tasks", "resources"} : after[k] = before[k]
    /\ \A part \in {"tasks", "resources"} :
            EntriesAddedOnly(Entries(before, part), Entries(after, part), DefaultStage[part])

AddsOnly(raw, out) ==
    /\ \A s \in DOMAIN raw.stages :
            s \in DOMAIN out.stages /\ StageAddedOnly(raw.stages[s], out.stages[s])
    /\ \A s \in DOMAIN out.stages \ DOMAIN raw.stages :
            /\ s \in DefaultStageIds
            /\ out.stages[s] = DefaultStage
            /\ \A part \in {"tasks", "resources"} :
                    \A i \in DOMAIN out.stages[s][part] : ~out.stages[s][part][i].completed
    /\ \A k \in DOMAIN raw \ {"stages"} : k \in DOMAIN out /\ out[k] = raw[k]

\* C5: migrate leaves every stage and entry that was present as it was (name,
\* flag, progress), removes nothing, legacy ids included, and what it adds is
\* the default entry or stage with completed = false.
C5_MigrateAddsOnly ==
    lastOp.op \in {"migrate", "migrate_again"} /\ lastOp.ok => AddsOnly(file.value, data)

C5_Witness ==
    /\ lastOp.op = "migrate"
    /\ lastOp.ok
    /\ KeepsLegacyEntry(data)
    /\ \E s \in DOMAIN file.value.stages :
            DOMAIN data.stages[s].tasks # DOMAIN Entries(file.value.stages[s], "tasks")

\* C6: migrating a migrated record changes nothing, and migrating a fresh
\* default record returns it as it is.
C6_MigrateIdempotent ==
    [][/\ lastOp'.op = "migrate_again" => data' = data
       /\ lastOp'.op = "migrate" /\ data = get_default_data(0) => data' = data]_vars

C6_Witness ==
    /\ lastOp.op = "migrate_again"
    /\ data # file.value
    /\ DOMAIN data.stages # DOMAIN file.value.stages

\* C7: a toggle or reset that succeeded leaves the file equal to the
\* in-memory record, whose total is the mean of the stage progresses and whose
\* changed stages carry their recomputed progress.
C7_PersistAfterMutation ==
    [][lastOp'.op \in Toggles \cup {"reset"} /\ lastOp'.ok =>
          /\ file' = json_dump(data')
          /\ data'.metadata.total_progress = MeanProgress(data')
          /\ \A s \in DOMAIN data'.stages \cap DOMAIN data.stages :
                data'.stages[s] # data.stages[s] =>
                    data'.stages[s].progress = PercentCompleted(data'.stages[s])]_vars

C7_Witness ==
    /\ lastOp.op \in Toggles
    /\ lastOp.ok
    /\ file = json_dump(data)
    /\ data.metadata.total_progress # Zero
    /\ data.metadata.last_update = MaxTime

\* C8: the record load returns has both 'stages' and 'metadata'.
C8_LoadReturnsValidRecord == lastOp.op = "load" => lastOp.ok /\ PersistedSchema(data)

\* C9: a toggle whose stage, task or resource id is not in the record raises,
\* and leaves the in-memory record and the file as they were.
C9_InvalidReference ==
    [][lastOp'.op \in Toggles /\ ~lastOp'.ref =>
          ~lastOp'.ok /\ data' = data /\ file' = file]_vars

C9_Witness ==
    /\ lastOp.op \in Toggles
    /\ ~lastOp.ref
    /\ ~lastOp.ok
    /\ file.kind = "json"
    /\ KeepsLegacyEntry(data)

AllFalse(entries) == \A i \in DOMAIN entries : ~entries[i].completed

\* C10: after a confirmed reset the in-memory record has exactly the default
\* stages with exactly the default entries, every flag false, every progress
\* 0, total_progress 0, and the file holds that record.
C10_Reset ==
    lastOp.op = "reset" =>
        /\ DOMAIN data.stages = DefaultStageIds
        /\ \A s \in DefaultStageIds :
              /\ DOMAIN data.stages[s].tasks = DefaultTaskIds
              /\ DOMAIN data.stages[s].resources = DefaultResourceIds
              /\ AllFalse(data.stages[s].tasks)
              /\ AllFalse(data.stages[s].resources)
              /\ data.stages[s].progress = Zero
              /\ ~data.stages[s].completed
        /\ data.metadata.total_progress = Zero
        /\ file = json_dump(data)

C10_Witness ==
    /\ lastOp.op = "reset"
    /\ data.metadata.start_date = MaxTime
    /\ file = json_dump(data)

\* ------------------------------------------- stage progress on its own
\* update_stage_progress applied to a record of one stage, with any number of
\* tasks and resources up to the bounds, any flags, and any stored progress.
FlaggedTasks(n, done) ==
    [i \in 1..n |-> [name |-> "default", completed |-> i \in done]]

FlaggedResources(n, done) ==
    [i \in 1..n |-> [name |-> "default", url |-> "default", completed |-> i \in done]]

TaskFlagInputs == {FlaggedTasks(n, done) : n \in 0..MaxTasks, done \in SUBSET (1..MaxTasks)}

ResourceFlagInputs ==
    {FlaggedResources(n, done) : n \in 0..MaxResources, done \in SUBSET (1..MaxResources)}

StoredProgressInputs == {Zero, <<50, 1>>, <<100, 1>>}

RecomputeInputs ==
    {[name |-> "default", completed |-> b, progress |-> p, resources |-> r, tasks |-> t] :
        b \in BOOLEAN, p \in StoredProgressInputs,
        r \in ResourceFlagInputs, t \in TaskFlagInputs}
    \cup {[name |-> "default", completed |-> b, progress |-> p, tasks |-> t] :
        b \in BOOLEAN, p \in StoredProgressInputs, t \in TaskFlagInputs}
    \cup {[name |-> "default", completed |-> b, progress |-> p, resources |-> r] :
        b \in BOOLEAN, p \in StoredProgressInputs, r \in ResourceFlagInputs}

InitRecompute ==
    /\ \E stage \in RecomputeInputs :
            data = [stages |-> [s \in {1} |-> stage],
                    metadata |-> [start_date |-> 0, last_update |-> 0,
                                  total_progress |-> stage.progress]]
    /\ file = json_dump(data)
    /\ now = 0
    /\ lastOp = Op("input", TRUE, TRUE)

\* self.update_stage_progress(stage_id)
RecomputeStage ==
    /\ update_stage_progress(data, 1).ok
    /\ data' = update_stage_progress(data, 1).data
    /\ lastOp' = Op("update_stage_progress", TRUE, TRUE)
    /\ UNCHANGED <<file, now>>

\* self.update_stage_progress(stage_id) raises: nothing was assigned
RecomputeRaises ==
    /\ ~update_stage_progress(data, 1).ok
    /\ lastOp' = Op("update_stage_progress", FALSE, TRUE)
    /\ UNCHANGED <<data, file, now>>

NextRecompute == RecomputeStage \/ RecomputeRaises

SpecRecompute == InitRecompute /\ [][NextRecompute]_vars

\* the numbers of tasks, of resources and of completed items of a stage
CountAll(stage, part) == Cardinality(DOMAIN Entries(stage, part))

CountDone(stage, part) ==
    Cardinality({i \in DOMAIN Entries(stage, part) : Entries(stage, part)[i].completed})

\* C11: update_stage_progress leaves progress = 100 * c / (t + r) for a stage
\* of t tasks and r resources with c completed items, 0 when t + r = 0, and
\* completed = (progress >= 100), which is: at least one item and all items
\* completed; 3 tasks and 2 resources with 3 completed items give 60.  The
\* counts are those of the stage it was given: it leaves the entries alone.
C11_RecomputeStage ==
    lastOp.op = "update_stage_progress" /\ lastOp.ok =>
        LET stage == data.stages[1]
            t == CountAll(stage, "tasks")
            r == CountAll(stage, "resources")
            c == CountDone(stage, "tasks") + CountDone(stage, "resources")
            p == stage.progress
        IN /\ t + r > 0 => p[1] * (t + r) = 100 * c * p[2]
           /\ t + r = 0 => p = Zero
           /\ stage.completed = (p[1] >= 100 * p[2])
           /\ stage.completed = (t + r > 0 /\ c = t + r)
           /\ t = 3 /\ r = 2 /\ c = 3 => p = <<60, 1>>
           /\ stage.tasks = file.value.stages[1].tasks
           /\ Entries(stage, "resources") = Entries(file.value.stages[1], "resources")

C11_Witness ==
    /\ lastOp.op = "update_stage_progress"
    /\ lastOp.ok
    /\ CountAll(data.stages[1], "tasks") = 3
    /\ CountAll(data.stages[1], "resources") = 2
    /\ CountDone(data.stages[1], "tasks") = 2
    /\ CountDone(data.stages[1], "resources") = 1
    /\ data.stages[1].progress = <<60, 1>>
    /\ file.value.stages[1].progress = <<100, 1>>
    /\ ~data.stages[1].completed

====
